---- MODULE Spec2Model ----
(***************************************************************************)
(* NetworkAnalyzerSuite: the capture session of sniffer/packet_sniffer.py, *)
(* the discovery run of scanner/network_scanner.py, the graph builder of   *)
(* visualizer/topology_visualizer.py and the controller of main.py.        *)
(*                                                                         *)
(* Four specifications share the module:                                   *)
(*   SpecSniffer   PacketSniffer driven by main.py or by its own script    *)
(*   SpecHandler   packet_handler on frames told apart by their contents   *)
(*   SpecScan      scan_network_menu driven by NetworkAnalyzerSuite        *)
(*   SpecTopology  TopologyVisualizer.create_topology and its helpers      *)
(* The variables of the other components keep their initial values.        *)
(***************************************************************************)
EXTENDS Integers, Sequences, FiniteSets, TLC

VARIABLES
    \* ---- sniffer/packet_sniffer.py, main.py (start_packet_sniffer)
    entry,              \* "main": driven by main.py; "script": packet_sniffer.py run directly
    root,               \* helpers.validate_root_access(): the process runs privileged
    pc,                 \* position of the control flow around start_sniffing
    running,            \* PacketSniffer.running
    packet_count,       \* PacketSniffer.packet_count
    protocol_stats,     \* PacketSniffer.protocol_stats
    captured_packets,   \* PacketSniffer.captured_packets
    count,              \* start_sniffing's count argument
    timeout,            \* start_sniffing's timeout argument, 0 standing for None
    save_pcap,          \* start_sniffing's save_pcap argument
    session_log,        \* the records self.logger wrote since the latest start banner
    packet_log,         \* the "Packet #n" lines packet_handler logged since that banner
    stats_out,          \* the statistics tables print_stats printed since the latest start banner
    pcap,               \* what save_to_pcap did for the latest start_sniffing call
    summary,            \* the summary save_session_summary exported for the latest session
    stop_calls,         \* stop_sniffing calls made by the latest start_sniffing call
    ended_by,           \* what ended the latest scapy.sniff call
    raised,             \* the exception the latest start_sniffing call let through to its caller
    dirty_start,        \* the latest start_sniffing call found counters of an earlier session
    last_action,        \* the text start_packet_sniffer returned to run()
    \* ---- scanner/network_scanner.py, main.py (scan_network)
    scan_pc,            \* position of the control flow around scan_network_menu
    lookup,             \* what the lookup of the chosen scan mode met in the host and the DNS
    scan_targets,       \* scan_network_menu's scan_targets
    target_idx,         \* the element of scan_targets the for loop is at
    all_devices,        \* scan_network_menu's all_devices
    srp_result,         \* the replies srp returned to the latest perform_arp_scan call
    devices,            \* what the latest perform_arp_scan call returned
    target_results,     \* what each perform_arp_scan call of this run returned, in call order
    probes,             \* the subnets handed to srp so far in this run
    result_file,        \* the scan-results file scan_network_menu wrote in this run
    menu_result,        \* what scan_network_menu returned to scan_network
    main_file,          \* the scan-results file scan_network wrote in this run
    scan_raised,        \* the exception that ended the run
    scan_last_action,   \* the text scan_network returned to run()
    \* ---- visualizer/topology_visualizer.py
    scan_data,          \* the device list handed to the visualizer
    local_ips,          \* what detect_local_ips returned
    topo_pc,            \* "idle" before the builder is called, "done" after
    topo_call,          \* the method called: create_topology or create_graph_from_scan_data
    graph,              \* the graph create_graph_from_scan_data returned (self.graph)
    topo_raised         \* the exception the call raised

snifferVars == <<entry, root, pc, running, packet_count, protocol_stats, captured_packets,
                 count, timeout, save_pcap, session_log, packet_log, stats_out, pcap,
                 summary, stop_calls, ended_by, raised, dirty_start, last_action>>

scanVars == <<scan_pc, lookup, scan_targets, target_idx, all_devices, srp_result, devices,
              target_results, probes, result_file, menu_result, main_file, scan_raised,
              scan_last_action>>

topoVars == <<scan_data, local_ips, topo_pc, topo_call, graph, topo_raised>>

vars == <<snifferVars, scanVars, topoVars>>

----------------------------------------------------------------------------
(* Bounds *)

\* Frames one capture session delivers at most.
MaxFrames == 10

\* Replies srp collects for one probe at most.
MaxReplies == 2

\* Devices in the list handed to the visualizer at most.
MaxDevices == 3

\* Frames handled at most where the frames are told apart by their contents.
MaxHandled == 3

----------------------------------------------------------------------------
(* Frames *)

\* kw in str, both sequences of characters
Contains(str, kw) ==
    \E i \in 0..(Len(str) - Len(kw)) : SubSeq(str, i + 1, i + Len(kw)) = kw

\* A decoded frame, by what packet_handler reads of it: the layers
\* packet.haslayer() reports, ip.src and ip.dst, the ports, icmp.type,
\* packet['Raw'].load as the sequence of its bytes (load_raises: reading or
\* decoding it raises), and len(packet).
Packet(ip, tcp, udp, icmp, raw, dns, src, dst, sport, dport, type, load, load_raises, len) ==
    [IP |-> ip, TCP |-> tcp, UDP |-> udp, ICMP |-> icmp, Raw |-> raw, DNS |-> dns,
     src |-> src, dst |-> dst, sport |-> sport, dport |-> dport, type |-> type,
     load |-> load, load_raises |-> load_raises, len |-> len]

\* A frame given by its layers alone: no payload, ports that carry no tag.
Frame(ip, tcp, udp, icmp) ==
    Packet(ip, tcp, udp, icmp, FALSE, FALSE, "192.168.1.7", "192.168.1.1",
           51000, 8080, 8, <<>>, FALSE, 60)

\* The frames a session delivers: ARP-like (no IP), IP/TCP, IP/UDP, IP/ICMP, bare IP.
SessionFrames ==
    << Frame(FALSE, FALSE, FALSE, FALSE),
       Frame(TRUE, TRUE, FALSE, FALSE),
       Frame(TRUE, FALSE, TRUE, FALSE),
       Frame(TRUE, FALSE, FALSE, TRUE),
       Frame(TRUE, FALSE, FALSE, FALSE) >>

FrameIndex(f) == CHOOSE i \in 1..Len(SessionFrames) : SessionFrames[i] = f

\* The counters depend on how many frames of each kind arrived, never on their
\* order, so a session's frames are enumerated up to permutation: kinds arrive
\* in the order of SessionFrames.
InArrivalOrder(packets, f) ==
    IF packets = <<>> THEN TRUE
    ELSE FrameIndex(packets[Len(packets)]) <= FrameIndex(f)

Protocols == {"TCP", "UDP", "ICMP", "Other"}

ZeroStats == [p \in Protocols |-> 0]

\* A chain that looks at the transport layers without asking for an IP header.
Proto_layerFirst(packet) ==
    IF packet.TCP THEN "TCP"
    ELSE IF packet.UDP THEN "UDP"
    ELSE IF packet.ICMP THEN "ICMP"
    ELSE "Other"

\* A chain that asks for UDP before TCP.
Proto_udpFirst(packet) ==
    IF packet.IP
    THEN IF packet.UDP THEN "UDP"
         ELSE IF packet.TCP THEN "TCP"
         ELSE IF packet.ICMP THEN "ICMP"
         ELSE "Other"
    ELSE "Other"

\* packet_handler's if/elif chain: the protocol_stats key it increments.
Proto(packet) ==
    IF packet.IP
    THEN IF packet.TCP THEN "TCP"
         ELSE IF packet.UDP THEN "UDP"
         ELSE IF packet.ICMP THEN "ICMP"
         ELSE "Other"
    ELSE "Other"

\* A handler that takes a frame without IP header back out of the Other count
\* when a later frame has one.
StatsAfter_recount(stats, packet) ==
    IF packet.IP /\ stats["Other"] > 0
    THEN [stats EXCEPT !["Other"] = @ - 1, ![Proto(packet)] = @ + 2]
    ELSE [stats EXCEPT ![Proto(packet)] = @ + 1]

\* A handler that forgets the counter of frames without an IP header.
StatsAfter_skipNonIP(stats, packet) ==
    IF packet.IP THEN [stats EXCEPT ![Proto(packet)] = @ + 1] ELSE stats

\* protocol_stats after packet_handler handled packet.
StatsAfter(stats, packet) == [stats EXCEPT ![Proto(packet)] = @ + 1]

StatsSum(stats) == stats["TCP"] + stats["UDP"] + stats["ICMP"] + stats["Other"]

----------------------------------------------------------------------------
(* The summary line of packet_handler *)

\* A text is the sequence of its characters; the constant parts of a summary
\* and the formatted numbers are single elements of it. "CR" and "LF" are the
\* line breaks, "0xFF" a byte that is no text.
InvalidByte == "0xFF"

LineBreaks == {"CR", "LF"}

\* load.decode(errors='ignore'): the bytes that are no text are dropped.
decode(load) == SelectSeq(load, LAMBDA b : b # InvalidByte)

\* data.splitlines(): the lines of data without their line breaks.
RECURSIVE splitlines(_)
splitlines(data) ==
    IF data = <<>> THEN <<>>
    ELSE IF \A i \in 1..Len(data) : data[i] \notin LineBreaks THEN <<data>>
    ELSE LET k == CHOOSE i \in 1..Len(data) :
                      /\ data[i] \in LineBreaks
                      /\ \A j \in 1..(i - 1) : data[j] \notin LineBreaks
             crlf == IF k < Len(data) THEN data[k] = "CR" /\ data[k + 1] = "LF" ELSE FALSE
             next == IF crlf THEN k + 2 ELSE k + 1
         IN <<SubSeq(data, 1, k - 1)>> \o splitlines(SubSeq(data, next, Len(data)))

\* ['GET', 'POST', 'HTTP']
methods == { <<"G", "E", "T">>, <<"P", "O", "S", "T">>, <<"H", "T", "T", "P">> }

\* The body of the try statement: the text it appends to summary and the
\* exception it ends with.
http_try(packet) ==
    IF packet.load_raises THEN [text |-> <<>>, exc |-> "Exception"]
    ELSE LET data == decode(packet.load)
         IN IF \E method \in methods : Contains(data, method)
            THEN IF splitlines(data) = <<>>
                 THEN [text |-> <<>>, exc |-> "IndexError"]
                 ELSE [text |-> <<" [HTTP] ">> \o splitlines(data)[1], exc |-> "none"]
            ELSE [text |-> <<>>, exc |-> "none"]

\* An except clause that lets the exception through.
except_pass_reraise(exc) == exc

\* except Exception: pass
except_pass(exc) == "none"

\* A port test that any port passes.
http_ports_any(packet) == TRUE

\* tcp.dport == 80 or tcp.sport == 80
http_ports(packet) == packet.dport = 80 \/ packet.sport = 80

\* The HTTP branch of a TCP frame: the text appended to summary and the
\* exception that leaves the branch.
http_tag(packet) ==
    IF http_ports(packet) /\ packet.Raw
    THEN [text |-> http_try(packet).text, exc |-> except_pass(http_try(packet).exc)]
    ELSE [text |-> <<>>, exc |-> "none"]

\* A table that names type 8 as type 0.
icmp_types_swapped(type) ==
    IF type = 0 THEN "Echo Request"
    ELSE IF type = 3 THEN "Dest Unreachable"
    ELSE IF type = 8 THEN "Echo Reply"
    ELSE IF type = 11 THEN "Time Exceeded"
    ELSE ""

\* icmp_types.get(icmp.type, '')
icmp_types(type) ==
    IF type = 0 THEN "Echo Reply"
    ELSE IF type = 3 THEN "Dest Unreachable"
    ELSE IF type = 8 THEN "Echo Request"
    ELSE IF type = 11 THEN "Time Exceeded"
    ELSE ""

\* summary as the if/elif chain of packet_handler leaves it.
SummaryOf(packet) ==
    IF packet.IP
    THEN IF packet.TCP
         THEN <<"TCP ", packet.src, ":", ToString(packet.sport), " -> ",
                packet.dst, ":", ToString(packet.dport)>>
              \o http_tag(packet).text
              \o (IF packet.dport = 443 \/ packet.sport = 443 THEN <<" [HTTPS]">> ELSE <<>>)
         ELSE IF packet.UDP
         THEN <<"UDP ", packet.src, ":", ToString(packet.sport), " -> ",
                packet.dst, ":", ToString(packet.dport)>>
              \o (IF packet.DNS THEN <<" [DNS Query]">> ELSE <<>>)
         ELSE IF packet.ICMP
         THEN <<"ICMP ", packet.src, " -> ", packet.dst, " Type: ", ToString(packet.type),
                " (", icmp_types(packet.type), ")">>
         ELSE <<packet.src, " -> ", packet.dst, " (Other Protocol)">>
    ELSE <<"Unknown Packet (", ToString(packet.len), " bytes)">>

\* The exception packet_handler ends with.
HandlerRaises(packet) ==
    IF packet.IP /\ packet.TCP THEN http_tag(packet).exc ELSE "none"

\* A log line whose text depends on the number of the frame.
PacketRec_numbered(n, proto, text, exc) ==
    [n |-> n, proto |-> proto, summary |-> <<ToString(n)>> \o text, raised |-> exc]

\* What one packet_handler call leaves: the line "Packet #n: summary" it
\* logs, the local proto, and the exception it ended with.
PacketRec(n, proto, text, exc) ==
    [n |-> n, proto |-> proto, summary |-> text, raised |-> exc]

----------------------------------------------------------------------------
(* PacketSniffer *)

\* One record of the log: level, message, and the counts the message prints.
LogRec(level, msg) ==
    [level |-> level, msg |-> msg, total |-> packet_count, stats |-> protocol_stats]

\* One statistics table of print_stats: the total and the four counts it prints
\* (the percentages are computed from these two on the spot).
StatsTable(kind, total, stats) == [kind |-> kind, total |-> total, stats |-> stats]

\* print_stats on the current counters.
print_stats(kind) == StatsTable(kind, packet_count, protocol_stats)

Exceptions == {"PermissionDenied", "InterfaceNotFound", "InvalidFilter", "IOError"}

\* An except clause that swallows the exception without logging it.
except_clause_silent(exc) ==
    [logged |-> FALSE, propagates |-> "none"]

\* The except clauses of start_sniffing around scapy.sniff: what is logged at
\* ERROR level and what is let through to the caller.
except_clause(exc) ==
    IF exc = "none" THEN [logged |-> FALSE, propagates |-> "none"]
    ELSE IF exc = "KeyboardInterrupt" THEN [logged |-> FALSE, propagates |-> "none"]
    ELSE [logged |-> TRUE, propagates |-> "none"]

\* captured_packets after packet_handler handled packet as frame number n.
RetainedAfter(packets, packet, n) == Append(packets, packet)

\* A start that keeps the counters of the earlier session.
ResetStats_keep(stats) == stats

\* The protocol_stats start_sniffing installs.
ResetStats(stats) == ZeroStats

\* main.py's sniff_with_menu prompts, or the script's: the arguments of start_sniffing.
CountChoices == {0, 3}
TimeoutChoices == {0, 30}

\* start_sniffing up to the call of scapy.sniff.
start_sniffing(c, t, s) ==
    /\ running' = TRUE
    /\ packet_count' = 0
    /\ protocol_stats' = ResetStats(protocol_stats)
    /\ captured_packets' = <<>>
    /\ count' = c
    /\ timeout' = t
    /\ save_pcap' = s
    /\ session_log' = << [level |-> "INFO", msg |-> "PACKET SNIFFING STARTED",
                          total |-> 0, stats |-> ResetStats(protocol_stats)] >>
    /\ packet_log' = <<>>
    /\ stats_out' = <<>>
    /\ pcap' = "none"
    /\ summary' = [saved |-> FALSE, total |-> 0, stats |-> ZeroStats]
    /\ stop_calls' = 0
    /\ ended_by' = "none"
    /\ raised' = "none"
    /\ dirty_start' = (packet_count > 0)
    /\ pc' = "opening"

\* A stop that leaves running set.
RunningAfterStop_stuck == running

\* running after stop_sniffing.
RunningAfterStop == FALSE

\* stop_sniffing(save_pcap), reached from start_sniffing's finally clause; log is
\* the log as the except clause left it, wrote_ok whether wrpcap succeeds.
stop_sniffing(log, wrote_ok) ==
    /\ running' = RunningAfterStop
    /\ session_log' = Append(log, LogRec("INFO", "PACKET SNIFFING STOPPED"))
    /\ stats_out' = Append(stats_out, print_stats("final"))
    /\ pcap' = IF save_pcap /\ captured_packets # <<>>
               THEN (IF wrote_ok THEN "saved" ELSE "failed")
               ELSE "none"
    /\ stop_calls' = stop_calls + 1

\* scapy.sniff ends (normally or with exc) and start_sniffing's
\* try/except/finally runs to the return.
sniff_ends(cause, exc, wrote_ok) ==
    LET handled == except_clause(exc)
        log == IF handled.logged
               THEN Append(session_log, LogRec("ERROR", "Error during packet sniffing"))
               ELSE session_log
    IN /\ stop_sniffing(log, wrote_ok)
       /\ ended_by' = cause
       /\ raised' = handled.propagates
       /\ pc' = "returned"
       /\ UNCHANGED <<entry, root, packet_count, protocol_stats, captured_packets,
                      count, timeout, save_pcap, packet_log, summary, dirty_start,
                      last_action>>

\* A cadence of every 5th frame.
StatsDue_fifth(n) == n % 5 = 0

\* self.packet_count % 10 == 0
StatsDue(n) == n % 10 = 0

\* packet_handler(packet): one captured frame, print_stats included.
packet_handler(packet) ==
    LET n == packet_count + 1
        stats == StatsAfter(protocol_stats, packet)
    IN /\ packet_count' = n
       /\ protocol_stats' = stats
       /\ session_log' = session_log
       /\ packet_log' = Append(packet_log, PacketRec(n, Proto(packet), SummaryOf(packet),
                                                     HandlerRaises(packet)))
       /\ captured_packets' = RetainedAfter(captured_packets, packet, n)
       /\ stats_out' = IF StatsDue(n)
                       THEN Append(stats_out, StatsTable("intermediate", n, stats))
                       ELSE stats_out

\* save_session_summary: the exported summary, or an ERROR record when the file
\* cannot be written.
save_session_summary(wrote_ok) ==
    IF wrote_ok
    THEN /\ summary' = [saved |-> TRUE, total |-> packet_count, stats |-> protocol_stats]
         /\ session_log' = session_log
    ELSE /\ summary' = summary
         /\ session_log' = Append(session_log, LogRec("ERROR", "Error saving session summary"))

----------------------------------------------------------------------------
(* The steps of a capture session *)

\* start_packet_sniffer without root access: no session is started.
StartRefused ==
    /\ pc = "menu" /\ entry = "main" /\ ~root
    /\ last_action' = "Sniffer failed"
    /\ UNCHANGED <<entry, root, pc, running, packet_count, protocol_stats,
                   captured_packets, count, timeout, save_pcap, session_log, packet_log,
                   stats_out, pcap, summary, stop_calls, ended_by, raised, dirty_start>>
    /\ UNCHANGED <<scanVars, topoVars>>

\* sniff_with_menu calls start_sniffing with the arguments the user entered.
Start ==
    /\ pc = "menu"
    /\ entry = "main" => root
    /\ \E c \in CountChoices, t \in TimeoutChoices, s \in BOOLEAN : start_sniffing(c, t, s)
    /\ UNCHANGED <<entry, root, last_action>>
    /\ UNCHANGED <<scanVars, topoVars>>

\* scapy.sniff opens the capture handle.
Open ==
    /\ pc = "opening" /\ root
    /\ pc' = "capturing"
    /\ UNCHANGED <<entry, root, running, packet_count, protocol_stats, captured_packets,
                   count, timeout, save_pcap, session_log, packet_log, stats_out, pcap,
                   summary, stop_calls, ended_by, raised, dirty_start, last_action>>
    /\ UNCHANGED <<scanVars, topoVars>>

\* scapy.sniff cannot open the capture handle and raises.
OpenFails ==
    /\ pc = "opening"
    /\ \E exc \in {"PermissionDenied", "InterfaceNotFound", "InvalidFilter"} :
          /\ (exc = "PermissionDenied") <=> ~root
          /\ sniff_ends("open_error", exc, TRUE)
    /\ UNCHANGED <<scanVars, topoVars>>

\* scapy.sniff delivers one frame to prn=self.packet_handler.
Capture ==
    /\ pc = "capturing"
    /\ (count > 0) => (packet_count < count)
    /\ packet_count < MaxFrames
    /\ \E i \in 1..Len(SessionFrames) :
          /\ InArrivalOrder(captured_packets, SessionFrames[i])
          /\ packet_handler(SessionFrames[i])
    /\ UNCHANGED <<entry, root, pc, running, count, timeout, save_pcap, pcap, summary,
                   stop_calls, ended_by, raised, dirty_start, last_action>>
    /\ UNCHANGED <<scanVars, topoVars>>

\* scapy.sniff returns because count frames were captured.
CountReached ==
    /\ pc = "capturing" /\ count > 0 /\ packet_count = count
    /\ \E w \in BOOLEAN : sniff_ends("count", "none", w)
    /\ UNCHANGED <<scanVars, topoVars>>

\* scapy.sniff returns because timeout elapsed.
TimeoutElapsed ==
    /\ pc = "capturing" /\ timeout > 0
    /\ \E w \in BOOLEAN : sniff_ends("timeout", "none", w)
    /\ UNCHANGED <<scanVars, topoVars>>

\* The user interrupts the capture.
Interrupt ==
    /\ pc = "capturing"
    /\ \E w \in BOOLEAN : sniff_ends("interrupt", "KeyboardInterrupt", w)
    /\ UNCHANGED <<scanVars, topoVars>>

\* The capture fails in the I/O layer while running.
IOFailure ==
    /\ pc = "capturing"
    /\ \E w \in BOOLEAN : sniff_ends("io_error", "IOError", w)
    /\ UNCHANGED <<scanVars, topoVars>>

\* main.py after sniff_with_menu returned: the optional summary, then the menu.
MainAfterSniff ==
    /\ pc = "returned" /\ entry = "main"
    /\ \E want_summary \in BOOLEAN, w \in BOOLEAN :
          IF want_summary THEN save_session_summary(w)
          ELSE UNCHANGED <<summary, session_log>>
    /\ last_action' = (IF raised = "none" THEN "Packet sniffed" ELSE "Sniffer error")
    /\ pc' = "menu"
    /\ UNCHANGED <<entry, root, running, packet_count, protocol_stats, captured_packets,
                   count, timeout, save_pcap, packet_log, stats_out, pcap, stop_calls, ended_by,
                   raised, dirty_start>>
    /\ UNCHANGED <<scanVars, topoVars>>

\* packet_sniffer.py run as a script: the summary is always saved, then it exits.
ScriptAfterSniff ==
    /\ pc = "returned" /\ entry = "script"
    /\ \E w \in BOOLEAN : save_session_summary(w)
    /\ pc' = "exit"
    /\ UNCHANGED <<entry, root, running, packet_count, protocol_stats, captured_packets,
                   count, timeout, save_pcap, packet_log, stats_out, pcap, stop_calls, ended_by,
                   raised, dirty_start, last_action>>
    /\ UNCHANGED <<scanVars, topoVars>>

SnifferInit ==
    /\ entry \in {"main", "script"}
    /\ root \in BOOLEAN
    /\ pc = "menu"
    /\ running = FALSE
    /\ packet_count = 0
    /\ protocol_stats = ZeroStats
    /\ captured_packets = <<>>
    /\ count = 0
    /\ timeout = 0
    /\ save_pcap = FALSE
    /\ session_log = <<>>
    /\ packet_log = <<>>
    /\ stats_out = <<>>
    /\ pcap = "none"
    /\ summary = [saved |-> FALSE, total |-> 0, stats |-> ZeroStats]
    /\ stop_calls = 0
    /\ ended_by = "none"
    /\ raised = "none"
    /\ dirty_start = FALSE
    /\ last_action = "none"

SnifferNext ==
    \/ StartRefused
    \/ Start
    \/ Open
    \/ OpenFails
    \/ Capture
    \/ CountReached
    \/ TimeoutElapsed
    \/ Interrupt
    \/ IOFailure
    \/ MainAfterSniff
    \/ ScriptAfterSniff

----------------------------------------------------------------------------
(* Frames by their contents *)

GetRequest == <<"G", "E", "T", " ", "/", "CR", "LF", "H", "o", "s", "t">>
LateToken == <<"x", "LF", "H", "T", "T", "P">>
SplitToken == <<"G", "0xFF", "E", "T">>
LowerCase == <<"g", "e", "t", " ", "/">>

\* An IP/TCP frame between 10.0.0.5 and 10.0.0.1.
TcpFrame(sport, dport, raw, load, load_raises) ==
    Packet(TRUE, TRUE, FALSE, FALSE, raw, FALSE, "10.0.0.5", "10.0.0.1",
           sport, dport, 8, load, load_raises, 74)

\* An IP/UDP frame; a DNS payload scapy could decode is the DNS layer, one it
\* could not is left as Raw.
UdpFrame(sport, dport, raw, dns) ==
    Packet(TRUE, FALSE, TRUE, FALSE, raw, dns, "10.0.0.5", "8.8.8.8",
           sport, dport, 8, <<>>, FALSE, 70)

\* An IP/ICMP frame from 10.0.0.2 to 8.8.8.8.
IcmpFrame(type) ==
    Packet(TRUE, FALSE, FALSE, TRUE, FALSE, FALSE, "10.0.0.2", "8.8.8.8",
           51000, 8080, type, <<>>, FALSE, 98)

\* A frame without IP header (ARP, IPv6) and its transport layers.
NoIpFrame(tcp, udp, icmp, len) ==
    Packet(FALSE, tcp, udp, icmp, FALSE, FALSE, "", "", 51000, 80, 8, <<>>, FALSE, len)

\* The frames scapy.sniff can hand to the handler.
HandledFrames ==
    { NoIpFrame(FALSE, FALSE, FALSE, 42), NoIpFrame(TRUE, FALSE, FALSE, 86),
      NoIpFrame(FALSE, TRUE, FALSE, 62), NoIpFrame(FALSE, FALSE, TRUE, 118),
      Frame(TRUE, FALSE, FALSE, FALSE), Frame(TRUE, TRUE, TRUE, FALSE),
      Frame(TRUE, FALSE, TRUE, TRUE), Frame(TRUE, TRUE, TRUE, TRUE),
      TcpFrame(51000, 80, TRUE, GetRequest, FALSE),
      TcpFrame(80, 51000, TRUE, LateToken, FALSE),
      TcpFrame(51000, 80, FALSE, <<>>, FALSE),
      TcpFrame(51000, 80, TRUE, LowerCase, FALSE),
      TcpFrame(51000, 80, TRUE, SplitToken, FALSE),
      TcpFrame(51000, 80, TRUE, GetRequest, TRUE),
      TcpFrame(51000, 8080, TRUE, GetRequest, FALSE),
      TcpFrame(51000, 443, FALSE, <<>>, FALSE),
      TcpFrame(80, 443, TRUE, GetRequest, FALSE),
      UdpFrame(51000, 9999, TRUE, FALSE), UdpFrame(51000, 53, FALSE, TRUE),
      UdpFrame(51000, 53, TRUE, FALSE),
      IcmpFrame(0), IcmpFrame(3), IcmpFrame(8), IcmpFrame(11), IcmpFrame(5) }

\* sniff_with_menu with the count and timeout prompts answered 0 and the PCAP
\* prompt declined: start_sniffing(count=0, timeout=None, save_pcap=False).
StartUnbounded ==
    /\ pc = "menu"
    /\ entry = "main" => root
    /\ start_sniffing(0, 0, FALSE)
    /\ UNCHANGED <<entry, root, last_action>>
    /\ UNCHANGED <<scanVars, topoVars>>

\* scapy.sniff delivers one frame, whatever its contents, to prn=self.packet_handler.
Handle ==
    /\ pc = "capturing"
    /\ (count > 0) => (packet_count < count)
    /\ packet_count < MaxHandled
    /\ \E packet \in HandledFrames : packet_handler(packet)
    /\ UNCHANGED <<entry, root, pc, running, count, timeout, save_pcap, pcap, summary,
                   stop_calls, ended_by, raised, dirty_start, last_action>>
    /\ UNCHANGED <<scanVars, topoVars>>

\* A session whose frames are told apart by their contents.
HandlerNext ==
    \/ StartUnbounded
    \/ Open
    \/ Handle

\* The sniffer started as a script by root.
SnifferScript ==
    /\ SnifferInit
    /\ entry = "script"
    /\ root

----------------------------------------------------------------------------
(* Strings of the scanner *)

\* A target string is the sequence of its tokens: an address or name, the
\* prefix delimiter "/", a prefix length. "/" in target, target.split("/") and
\* f"{target}/32" act on the tokens.
IPv4Tokens == {"192.168.1.0", "192.168.1.7", "10.0.0.5"}
NameTokens == {"example.com"}
IntTokens == {"24", "32", "33"}

\* int(prefix) for the tokens int() accepts.
IntOf(tok) == IF tok = "24" THEN 24 ELSE IF tok = "32" THEN 32 ELSE 33

HasSlash(s) == \E i \in 1..Len(s) : s[i] = "/"

\* s.split("/"): the pieces between the delimiters.
RECURSIVE Split(_)
Split(s) ==
    IF ~HasSlash(s) THEN <<s>>
    ELSE LET k == CHOOSE i \in 1..Len(s) : s[i] = "/" /\ \A j \in 1..(i - 1) : s[j] # "/"
         IN <<SubSeq(s, 1, k - 1)>> \o Split(SubSeq(s, k + 1, Len(s)))

\* helpers.validate_ip_address: socket.inet_aton accepts the string.
validate_ip_address(ip) == Len(ip) = 1 /\ ip[1] \in IPv4Tokens

\* helpers.validate_network_range: CIDR notation with a prefix of 0..32; any
\* exception (a second "/", a prefix int() rejects) gives False.
validate_network_range(network) ==
    IF ~HasSlash(network) THEN FALSE
    ELSE LET parts == Split(network)
         IN IF Len(parts) # 2 THEN FALSE
            ELSE IF ~validate_ip_address(parts[1]) THEN FALSE
            ELSE IF ~(Len(parts[2]) = 1 /\ parts[2][1] \in IntTokens) THEN FALSE
            ELSE 0 <= IntOf(parts[2][1]) /\ IntOf(parts[2][1]) <= 32

\* What the user can type at "Enter subnet/IP range".
ManualInputs ==
    { <<"192.168.1.0", "/", "24">>, <<"192.168.1.7">>, <<"example.com">>,
      <<"192.168.1.0", "/", "33">>, <<>> }

\* What netifaces reports: whether there is a default IPv4 route, and the
\* IPv4 address and netmask of its interface ("" where there is none).
GatewayLookups ==
    { [route |-> FALSE, addr |-> "", netmask |-> ""],
      [route |-> TRUE, addr |-> "", netmask |-> ""],
      [route |-> TRUE, addr |-> "192.168.1.7", netmask |-> ""],
      [route |-> TRUE, addr |-> "192.168.1.7", netmask |-> "255.255.255.0"] }

\* sum of the one-bits of the netmask's fields, as str(mask)
MaskBits(netmask) == IF netmask = "255.255.255.0" THEN "24" ELSE "32"

\* subnet.rsplit('.', 1)[0] + ".0": the address with its last field set to 0
BaseOf(addr) == IF addr = "192.168.1.7" THEN "192.168.1.0" ELSE "10.0.0.0"

\* get_default_gateway_subnet(): the subnet of the default interface, or None
\* (the empty value).
get_default_gateway_subnet(netif) ==
    IF ~netif.route THEN <<>>
    ELSE IF netif.addr = "" \/ netif.netmask = "" THEN <<>>
    ELSE <<BaseOf(netif.addr), "/", MaskBits(netif.netmask)>>

\* What get_default_gateway_subnet returns: a subnet, or None (the empty value).
GatewaySubnets == {get_default_gateway_subnet(netif) : netif \in GatewayLookups}

\* What socket.gethostbyname_ex does for the domain: it raises, or it returns
\* the addresses.
DnsAnswers ==
    { [raises |-> TRUE, ips |-> <<>>],
      [raises |-> FALSE, ips |-> << <<"192.168.1.7">> >>],
      [raises |-> FALSE, ips |-> << <<"192.168.1.7">>, <<"10.0.0.5">> >>] }

\* A resolver that hands the name on when the lookup fails.
resolve_domain_to_ips_name(answer) ==
    IF answer.raises THEN << <<"example.com">> >> ELSE answer.ips

\* resolve_domain_to_ips(domain)
resolve_domain_to_ips(answer) == IF answer.raises THEN <<>> ELSE answer.ips

\* What resolve_domain_to_ips returns: the addresses of the domain, [] on failure.
ResolvedIps == {resolve_domain_to_ips(answer) : answer \in DnsAnswers}

\* No lookup made.
NoLookup == [choice |-> "none", route |-> FALSE, addr |-> "", raises |-> FALSE]

----------------------------------------------------------------------------
(* Discovery: scanner/network_scanner.py and NetworkAnalyzerSuite.scan_network *)

ReplyIps == {"192.168.1.1", "192.168.1.7"}
ReplyMacs == {"aa:aa:aa:aa:aa:aa", "bb:bb:bb:bb:bb:bb"}

\* The ARP replies srp can pair with the probes of one call.
Replies == [psrc : ReplyIps, hwsrc : ReplyMacs]

RECURSIVE SeqsUpTo(_, _)
SeqsUpTo(S, n) ==
    IF n = 0 THEN {<<>>}
    ELSE LET shorter == SeqsUpTo(S, n - 1)
         IN shorter \cup {Append(q, x) : q \in shorter, x \in S}

\* scapy builds the probe of ARP(pdst=subnet) from an address or a host name it
\* resolves, with a prefix of at most 32; for anything else it raises.
ScapyAccepts(subnet) ==
    /\ Len(subnet) = 3
    /\ subnet[1] \in IPv4Tokens \cup NameTokens
    /\ subnet[2] = "/"
    /\ subnet[3] \in IntTokens /\ IntOf(subnet[3]) <= 32

\* perform_arp_scan(subnet) when srp answered with result: one device per reply.
perform_arp_scan(subnet, result) ==
    [i \in 1..Len(result) |-> [ip |-> result[i].psrc, mac |-> result[i].hwsrc]]

\* A loop that probes a single host as a /24 block.
SubnetOf_slash24(target) == IF HasSlash(target) THEN target ELSE target \o <<"/", "24">>

\* The subnet the for loop of scan_network_menu probes for target.
SubnetOf(target) == IF HasSlash(target) THEN target ELSE target \o <<"/", "32">>

\* An extend that skips the devices whose IP an earlier target already gave.
extend_dedup(all, devs) ==
    all \o SelectSeq(devs, LAMBDA d : \A i \in 1..Len(all) : all[i].ip # d.ip)

\* all_devices.extend(devices)
extend(all, devs) == all \o devs

NoFile == [written |-> FALSE, devices |-> <<>>]

NoneValue == [none |-> TRUE, devices |-> <<>>]

\* The value scan_network_menu returns after the results were saved.
menu_return(devs) == NoneValue

\* scan_network: "if not results".
Falsy(results) == results.none \/ results.devices = <<>>

\* scan_network enters scan_network_menu, which reads the mode and the targets
\* (lines 44-71): it returns early, or has its scan_targets.
ScanMenu ==
    /\ scan_pc = "menu"
    /\ \E choice \in {"1", "2", "3", "other"} :
         \E netif \in GatewayLookups, manual \in ManualInputs, answer \in DnsAnswers :
            LET subnet == get_default_gateway_subnet(netif)
                ips == resolve_domain_to_ips(answer)
                early == \/ (choice = "1" /\ subnet = <<>>)
                         \/ (choice = "3" /\ ips = <<>>)
                         \/ choice = "other"
                targets == IF choice = "1" THEN <<subnet>>
                           ELSE IF choice = "2" THEN <<manual>>
                           ELSE ips
            IN /\ lookup' = [choice |-> choice,
                              route |-> (choice = "1" /\ netif.route),
                              addr |-> (IF choice = "1" THEN netif.addr ELSE ""),
                              raises |-> (choice = "3" /\ answer.raises)]
               /\ scan_targets' = (IF early THEN <<>> ELSE targets)
               /\ scan_pc' = (IF early THEN "menu_returned" ELSE "scanning")
    /\ target_idx' = 1
    /\ all_devices' = <<>>
    /\ srp_result' = <<>>
    /\ devices' = <<>>
    /\ target_results' = <<>>
    /\ probes' = <<>>
    /\ result_file' = NoFile
    /\ main_file' = NoFile
    /\ menu_result' = NoneValue
    /\ scan_raised' = "none"
    /\ UNCHANGED scan_last_action
    /\ UNCHANGED <<snifferVars, topoVars>>

\* One iteration of the for loop (lines 74-79): the target is probed and the
\* devices that answered are appended.
ScanTarget ==
    /\ scan_pc = "scanning" /\ target_idx <= Len(scan_targets)
    /\ LET subnet == SubnetOf(scan_targets[target_idx])
       IN /\ ScapyAccepts(subnet)
          /\ \E result \in SeqsUpTo(Replies, MaxReplies) :
                /\ srp_result' = result
                /\ devices' = perform_arp_scan(subnet, result)
                /\ target_results' = Append(target_results, perform_arp_scan(subnet, result))
                /\ all_devices' = extend(all_devices, perform_arp_scan(subnet, result))
          /\ probes' = Append(probes, subnet)
    /\ target_idx' = target_idx + 1
    /\ UNCHANGED <<scan_pc, lookup, scan_targets, result_file, menu_result, main_file,
                   scan_raised, scan_last_action>>
    /\ UNCHANGED <<snifferVars, topoVars>>

\* perform_arp_scan raises (scapy rejects the subnet, or the socket cannot be
\* opened): scan_network_menu lets it through and scan_network reports it.
ScanTargetRaises ==
    /\ scan_pc = "scanning" /\ target_idx <= Len(scan_targets)
    /\ scan_raised' = "Exception"
    /\ scan_last_action' = <<"Scan error", 0>>
    /\ scan_pc' = "menu"
    /\ UNCHANGED <<lookup, scan_targets, target_idx, all_devices, srp_result, devices,
                   target_results, probes,
                   result_file, menu_result, main_file>>
    /\ UNCHANGED <<snifferVars, topoVars>>

\* The user interrupts while a target is scanned: KeyboardInterrupt passes
\* scan_network_menu and scan_network ("except Exception") and ends run().
ScanInterrupted ==
    /\ scan_pc = "scanning" /\ target_idx <= Len(scan_targets)
    /\ scan_raised' = "KeyboardInterrupt"
    /\ scan_pc' = "exit"
    /\ UNCHANGED <<lookup, scan_targets, target_idx, all_devices, srp_result, devices,
                   target_results, probes,
                   result_file, menu_result, main_file, scan_last_action>>
    /\ UNCHANGED <<snifferVars, topoVars>>

\* After the loop (lines 81-86): the results are written and the function ends.
SaveResults ==
    /\ scan_pc = "scanning" /\ target_idx > Len(scan_targets)
    /\ \E wrote_ok \in BOOLEAN :
          IF wrote_ok
          THEN /\ result_file' = [written |-> TRUE, devices |-> all_devices]
               /\ menu_result' = menu_return(all_devices)
               /\ scan_pc' = "menu_returned"
               /\ UNCHANGED <<scan_raised, scan_last_action>>
          ELSE /\ scan_raised' = "Exception"
               /\ scan_last_action' = <<"Scan error", 0>>
               /\ scan_pc' = "menu"
               /\ UNCHANGED <<result_file, menu_result>>
    /\ UNCHANGED <<lookup, scan_targets, target_idx, all_devices, srp_result, devices,
                   target_results, probes, main_file>>
    /\ UNCHANGED <<snifferVars, topoVars>>

\* scan_network after scan_network_menu returned (lines 67-80).
AfterMenu ==
    /\ scan_pc = "menu_returned"
    /\ IF Falsy(menu_result)
       THEN /\ scan_last_action' = <<"Scan aborted", 0>>
            /\ UNCHANGED <<main_file, scan_raised>>
       ELSE \E wrote_ok \in BOOLEAN :
               IF wrote_ok
               THEN /\ main_file' = [written |-> TRUE, devices |-> menu_result.devices]
                    /\ scan_last_action' = <<"Network scan", Len(menu_result.devices)>>
                    /\ UNCHANGED scan_raised
               ELSE /\ scan_raised' = "Exception"
                    /\ scan_last_action' = <<"Scan error", 0>>
                    /\ UNCHANGED main_file
    /\ scan_pc' = "menu"
    /\ UNCHANGED <<lookup, scan_targets, target_idx, all_devices, srp_result, devices,
                   target_results, probes,
                   result_file, menu_result>>
    /\ UNCHANGED <<snifferVars, topoVars>>

ScanIdle ==
    /\ scan_pc = "menu"
    /\ lookup = NoLookup
    /\ scan_targets = <<>>
    /\ target_idx = 1
    /\ all_devices = <<>>
    /\ srp_result = <<>>
    /\ devices = <<>>
    /\ target_results = <<>>
    /\ probes = <<>>
    /\ result_file = NoFile
    /\ menu_result = NoneValue
    /\ main_file = NoFile
    /\ scan_raised = "none"
    /\ scan_last_action = <<"none", 0>>

ScanNext ==
    \/ ScanMenu
    \/ ScanTarget
    \/ ScanTargetRaises
    \/ ScanInterrupted
    \/ SaveResults
    \/ AfterMenu

\* The sniffer of a suite that only scans: constructed, never started.
SnifferIdle ==
    /\ SnifferInit
    /\ entry = "main"
    /\ root

----------------------------------------------------------------------------
(* Topology: visualizer/topology_visualizer.py *)

\* A string is the sequence of its characters, so that lower() and the
\* substring test "kw in vendor.lower()" are computed.
LowerChar(c) ==
    IF c = "A" THEN "a" ELSE IF c = "C" THEN "c" ELSE IF c = "D" THEN "d"
    ELSE IF c = "H" THEN "h" ELSE IF c = "M" THEN "m" ELSE IF c = "P" THEN "p"
    ELSE IF c = "U" THEN "u" ELSE IF c = "V" THEN "v" ELSE c

Lower(str) == [i \in 1..Len(str) |-> LowerChar(str[i])]

vm_keywords ==
    { <<"v", "m", "w", "a", "r", "e">>,
      <<"v", "i", "r", "t", "u", "a", "l", "b", "o", "x">>,
      <<"h", "y", "p", "e", "r", "-", "v">> }

known_vendors ==
    { <<"a", "p", "p", "l", "e">>, <<"s", "a", "m", "s", "u", "n", "g">>,
      <<"g", "o", "o", "g", "l", "e">>, <<"i", "n", "t", "e", "l">>,
      <<"h", "p">>, <<"d", "e", "l", "l">> }

Unknown == <<"U", "n", "k", "n", "o", "w", "n">>
Apple == <<"A", "p", "p", "l", "e">>
VMware == <<"V", "M", "w", "a", "r", "e">>
Cisco == <<"C", "i", "s", "c", "o">>
DellVMware == <<"D", "e", "l", "l", " ", "V", "M", "w", "a", "r", "e">>

\* An IPv4 address string is the sequence of its dot-separated fields.
\* A MAC string is <<its first 8 characters, the rest>>, so that mac[:8] is mac[1].
MacA == <<"00:11:22", ":33:44:55">>
MacB == <<"11:22:33", ":44:55:66">>

\* A device of the scan data; vendor is <<>> when the record has no vendor key.
Device(ip, mac, vendor) == [ip |-> ip, mac |-> mac, vendor |-> vendor]

\* The devices the lists are made of: two subnets, an address answered twice
\* with different hardware addresses, records with and without a vendor, a
\* vendor that holds a virtualization keyword and a hardware-vendor keyword.
DeviceUniverse ==
    { Device(<<192, 168, 1, 1>>, MacA, <<Cisco>>),
      Device(<<192, 168, 1, 50>>, MacB, <<Apple>>),
      Device(<<192, 168, 1, 50>>, MacA, <<VMware>>),
      Device(<<192, 168, 1, 100>>, MacB, <<VMware>>),
      Device(<<192, 168, 1, 60>>, MacA, <<DellVMware>>),
      Device(<<192, 168, 2, 1>>, MacA, <<>>),
      Device(<<192, 168, 2, 9>>, MacB, <<>>) }

\* What detect_local_ips can return: nothing, or the address of the host name.
LocalIpChoices == { <<>>, << <<192, 168, 1, 100>> >>, << <<192, 168, 1, 1>> >> }

\* device.get('vendor', 'Unknown')
VendorOf(device) == IF device.vendor = <<>> THEN Unknown ELSE device.vendor[1]

\* A detection that always takes the first device.
detect_gateway_first(data) ==
    IF data # <<>> THEN data[1].ip ELSE <<192, 168, 1, 1>>

\* detect_gateway(scan_data)
detect_gateway(data) ==
    IF data # <<>>
    THEN LET first == data[1].ip
             base == SubSeq(first, 1, 3)
             candidate == base \o <<1>>
             all_ips == [i \in 1..Len(data) |-> data[i].ip]
         IN IF \E i \in 1..Len(all_ips) : all_ips[i] = candidate
            THEN candidate
            ELSE all_ips[1]
    ELSE <<192, 168, 1, 1>>

\* A classification that tests the hardware-vendor keywords before the
\* virtualization keywords.
classify_device_vendorFirst(ip, mac, vendor, gateway_ip, local) ==
    IF ip = gateway_ip THEN "gateway"
    ELSE IF \E i \in 1..Len(local) : local[i] = ip THEN "local"
    ELSE IF \E v \in known_vendors : Contains(Lower(vendor), v) THEN "device"
    ELSE IF \E kw \in vm_keywords : Contains(Lower(vendor), kw) THEN "vm"
    ELSE "unknown"

\* classify_device(ip, mac, vendor, gateway_ip, local_ips)
classify_device(ip, mac, vendor, gateway_ip, local) ==
    IF ip = gateway_ip THEN "gateway"
    ELSE IF \E i \in 1..Len(local) : local[i] = ip THEN "local"
    ELSE IF \E kw \in vm_keywords : Contains(Lower(vendor), kw) THEN "vm"
    ELSE IF \E v \in known_vendors : Contains(Lower(vendor), v) THEN "device"
    ELSE "unknown"

\* nx.Graph(): nodes with their attributes, undirected edges as sets of ends
\* (a self-loop is the one-element set).
EmptyGraph == [nodes |-> <<>>, edges |-> {}]

\* G.add_node(id, **attrs): a new node, or the attributes of an existing one updated.
add_node(G, id, attrs) ==
    [G EXCEPT !.nodes = [n \in (DOMAIN G.nodes) \cup {id} |->
                            IF n = id THEN attrs ELSE G.nodes[n]]]

\* G.add_edge(u, v) between two nodes of G.
add_edge(G, u, v) == [G EXCEPT !.edges = @ \cup {{u, v}}]

\* The node create_graph_from_scan_data adds first.
GatewayNode(gateway_ip) ==
    [node_type |-> "gateway", ip |-> gateway_ip, mac |-> <<"Gateway", "">>, vendor |-> <<>>,
     label |-> [title |-> "Gateway", ip |-> gateway_ip, vendor |-> <<>>, mac8 |-> ""]]

\* The node the loop adds for device.
DeviceNode(device, gateway_ip, local) ==
    [node_type |-> classify_device(device.ip, device.mac, VendorOf(device), gateway_ip, local),
     ip |-> device.ip, mac |-> device.mac, vendor |-> <<VendorOf(device)>>,
     label |-> [title |-> "", ip |-> device.ip, vendor |-> <<VendorOf(device)>>,
                mac8 |-> device.mac[1]]]

\* The for loop of create_graph_from_scan_data from device number i on.
RECURSIVE AddDevices(_, _, _, _, _)
AddDevices(G, data, i, gateway_ip, local) ==
    IF i > Len(data) THEN G
    ELSE LET device == data[i]
             withNode == add_node(G, device.ip, DeviceNode(device, gateway_ip, local))
         IN AddDevices(add_edge(withNode, gateway_ip, device.ip), data, i + 1,
                       gateway_ip, local)

\* create_graph_from_scan_data(scan_data), detect_local_ips having returned local.
create_graph_from_scan_data(data, local) ==
    LET gateway_ip == detect_gateway(data)
        G == add_node(EmptyGraph, gateway_ip, GatewayNode(gateway_ip))
    IN AddDevices(G, data, 1, gateway_ip, local)

\* create_topology(scan_data): ValueError for no scan data, else the graph is
\* built and kept in self.graph.
CreateTopology ==
    /\ topo_pc = "idle"
    /\ \E data \in SeqsUpTo(DeviceUniverse, MaxDevices), local \in LocalIpChoices :
          /\ scan_data' = data
          /\ local_ips' = local
          /\ IF data = <<>>
             THEN /\ topo_raised' = "ValueError"
                  /\ graph' = graph
             ELSE /\ topo_raised' = "none"
                  /\ graph' = create_graph_from_scan_data(data, local)
    /\ topo_call' = "create_topology"
    /\ topo_pc' = "done"
    /\ UNCHANGED <<snifferVars, scanVars>>

\* create_graph_from_scan_data called on its own.
CreateGraph ==
    /\ topo_pc = "idle"
    /\ \E data \in SeqsUpTo(DeviceUniverse, MaxDevices), local \in LocalIpChoices :
          /\ scan_data' = data
          /\ local_ips' = local
          /\ graph' = create_graph_from_scan_data(data, local)
    /\ topo_raised' = "none"
    /\ topo_call' = "create_graph_from_scan_data"
    /\ topo_pc' = "done"
    /\ UNCHANGED <<snifferVars, scanVars>>

TopoIdle ==
    /\ scan_data = <<>>
    /\ local_ips = <<>>
    /\ topo_pc = "idle"
    /\ topo_call = "none"
    /\ graph = EmptyGraph
    /\ topo_raised = "none"

TopoNext ==
    \/ CreateTopology
    \/ CreateGraph

----------------------------------------------------------------------------
(* Specifications *)

InitSniffer == SnifferInit /\ ScanIdle /\ TopoIdle

InitScan == SnifferIdle /\ ScanIdle /\ TopoIdle

InitTopology == SnifferIdle /\ ScanIdle /\ TopoIdle

InitHandler == SnifferScript /\ ScanIdle /\ TopoIdle

SpecSniffer == InitSniffer /\ [][SnifferNext]_vars

SpecScan == InitScan /\ [][ScanNext]_vars

SpecTopology == InitTopology /\ [][TopoNext]_vars

SpecHandler == InitHandler /\ [][HandlerNext]_vars

----------------------------------------------------------------------------
(* Capture session: properties *)

Range(seq) == {seq[i] : i \in 1..Len(seq)}

ErrorRecords(log) == {r \in Range(log) : r.level = "ERROR"}

CleanEnds == {"count", "timeout", "interrupt"}

C2_CleanTermination ==
    (pc = "returned" /\ ended_by \in CleanEnds) =>
        /\ stop_calls = 1
        /\ ~running
        /\ stats_out # <<>>
        /\ stats_out[Len(stats_out)] = StatsTable("final", packet_count, protocol_stats)
        /\ session_log[Len(session_log)] = LogRec("INFO", "PACKET SNIFFING STOPPED")
        /\ Len(captured_packets) = packet_count
        /\ ErrorRecords(session_log) = {}
        /\ raised = "none"

\* C2 witness: a capture with frames counted was ended by the user.
C2_Witness ==
    pc = "returned" /\ ended_by = "interrupt" /\ packet_count > 1

\* C2, the other two ends: a capture ended by its count, and one by its timeout.
C2_WitnessCount == pc = "returned" /\ ended_by = "count" /\ packet_count = 3

C2_WitnessTimeout == pc = "returned" /\ ended_by = "timeout" /\ packet_count > 1

\* C3: once start_sniffing has made the session Running and until the first
\* frame is handled, packet_count and every counter are 0, whatever an earlier
\* session on the same instance left.
C3_StartResets ==
    (pc = "opening" \/ (pc = "capturing" /\ captured_packets = <<>>)) =>
        /\ running
        /\ packet_count = 0
        /\ \A p \in Protocols : protocol_stats[p] = 0

\* C3 witness: a session was started on an instance whose earlier session had
\* counted frames.
C3_Witness ==
    pc = "capturing" /\ captured_packets = <<>> /\ dirty_start

\* C7: when an I/O failure ended a running capture, at the return of
\* start_sniffing the session is idle (running False, stop_sniffing run once)
\* and its log holds the ERROR record of the failure; the log of a session
\* ended by count, timeout or interrupt holds none, so the two are told apart.
C7_FailureRecorded ==
    (pc = "returned") =>
        /\ (ended_by = "io_error") =>
              /\ ~running
              /\ stop_calls = 1
              /\ \E r \in ErrorRecords(session_log) : r.msg = "Error during packet sniffing"
        /\ (ended_by \in CleanEnds) => ErrorRecords(session_log) = {}

\* C7 witness: a capture that had counted frames failed in the I/O layer.
C7_Witness ==
    pc = "returned" /\ ended_by = "io_error" /\ packet_count > 0

\* C8: when the capture handle cannot be opened, start_sniffing fails: the
\* failure reaches its caller as PermissionDenied, InterfaceNotFound or
\* InvalidFilter, and no frame is counted.
C8_OpenFailureSurfaced ==
    (pc = "returned" /\ ended_by = "open_error") =>
        /\ raised \in {"PermissionDenied", "InterfaceNotFound", "InvalidFilter"}
        /\ packet_count = 0

\* C9: the retained-frame buffer is capped below the number of frames a session
\* handles: it never holds all MaxFrames frames of a longest session.
C9_BufferCapped ==
    Len(captured_packets) < MaxFrames

\* The intermediate tables printed since the session started.
Intermediate == {i \in 1..Len(stats_out) : stats_out[i].kind = "intermediate"}

\* C24: in a session, an intermediate table was printed for frame number n
\* exactly when n is a positive multiple of 10 and n frames were handled, once
\* each; the table shows the counts as they were after frame n, and right
\* after frame n packet_count, the counters and the retained frames are what
\* handling the frame made them.
C24_SnapshotEveryTenth ==
    /\ {stats_out[i].total : i \in Intermediate} =
          {n \in 1..packet_count : n % 10 = 0}
    /\ Cardinality(Intermediate) = packet_count \div 10
    /\ \A i \in Intermediate :
          /\ StatsSum(stats_out[i].stats) = stats_out[i].total
          /\ \A p \in Protocols : stats_out[i].stats[p] <= protocol_stats[p]
    /\ (pc = "capturing" /\ packet_count > 0 /\ packet_count % 10 = 0) =>
          /\ stats_out # <<>>
          /\ stats_out[Len(stats_out)] =
                 StatsTable("intermediate", packet_count, protocol_stats)
          /\ Len(captured_packets) = packet_count
          /\ Len(packet_log) = packet_count
          /\ StatsSum(protocol_stats) = packet_count

\* C24 witness: a running session has just handled its 10th frame.
C24_Witness ==
    /\ pc = "capturing" /\ running
    /\ packet_count = 10
    /\ Cardinality(Intermediate) = 1

\* C24, before the 10th frame: nine frames handled and no table printed.
C24_WitnessNone ==
    pc = "capturing" /\ packet_count = 9 /\ stats_out = <<>>

\* The step is start_sniffing's reset.
IsStart == pc = "menu" /\ pc' = "opening"

\* C25: no step of a session lowers packet_count or one of the four counters;
\* the only step that does is the reset of start_sniffing, which sets them to
\* 0; the end of the capture (stop_sniffing and its tables) and the export of
\* the summary leave them as they are.
C25_CountersMonotone ==
    [][ /\ ~IsStart =>
              /\ packet_count' >= packet_count
              /\ \A p \in Protocols : protocol_stats'[p] >= protocol_stats[p]
        /\ IsStart =>
              /\ packet_count' = 0
              /\ \A p \in Protocols : protocol_stats'[p] = 0
        /\ (pc' \in {"returned", "menu", "exit"} /\ ~IsStart) =>
              /\ packet_count' = packet_count
              /\ protocol_stats' = protocol_stats
      ]_vars

\* C25 witness: a second session on the same instance counted frames with and
\* without IP header, ended, and its summary was exported.
C25_Witness ==
    /\ dirty_start /\ stop_calls = 1 /\ summary.saved
    /\ protocol_stats["Other"] > 0 /\ protocol_stats["TCP"] > 0
    /\ packet_count > 2

----------------------------------------------------------------------------
(* packet_handler: properties *)

\* The frames handled so far in the session, by their position.
Handled == 1..Len(packet_log)

HttpTag == <<" [HTTP] ">>

DnsTag == <<" [DNS Query]">>

\* C13: a frame without IP header is tagged Other whatever layers it carries
\* (TCP, UDP or ICMP included), its summary reports len(packet), and handling
\* it increments the Other counter alone.
C13_NoIpIsOther ==
    /\ \A i \in Handled :
          ~captured_packets[i].IP =>
              /\ packet_log[i].proto = "Other"
              /\ packet_log[i].summary =
                     <<"Unknown Packet (", ToString(captured_packets[i].len), " bytes)">>
              /\ (captured_packets[i].len = 86) =>
                     packet_log[i].summary = <<"Unknown Packet (", "86", " bytes)">>
    /\ protocol_stats["Other"] >= Cardinality({i \in Handled : ~captured_packets[i].IP})
    /\ protocol_stats["TCP"] + protocol_stats["UDP"] + protocol_stats["ICMP"]
          <= Cardinality({i \in Handled : captured_packets[i].IP})

\* C13 witness: frames without IP header that carry a TCP, a UDP and an ICMP
\* layer were handled.
C13_Witness ==
    /\ Len(packet_log) = 3
    /\ \A i \in Handled : ~captured_packets[i].IP
    /\ \E i \in Handled : captured_packets[i].TCP
    /\ \E i \in Handled : captured_packets[i].UDP
    /\ \E i \in Handled : captured_packets[i].ICMP

\* C14: every handled frame has one tag of TCP, UDP, ICMP, Other, given by the
\* first rule that matches: no IP header -> Other, TCP -> TCP, UDP -> UDP,
\* ICMP -> ICMP, else Other; and each counter is the number of frames handled
\* with its tag (one counter goes up by 1 per frame, the others stay).
C14_OneTagFirstRule ==
    /\ \A i \in Handled :
          LET f == captured_packets[i]
              tag == packet_log[i].proto
          IN /\ tag \in Protocols
             /\ ~f.IP => tag = "Other"
             /\ (f.IP /\ f.TCP) => tag = "TCP"
             /\ (f.IP /\ ~f.TCP /\ f.UDP) => tag = "UDP"
             /\ (f.IP /\ ~f.TCP /\ ~f.UDP /\ f.ICMP) => tag = "ICMP"
             /\ (f.IP /\ ~f.TCP /\ ~f.UDP /\ ~f.ICMP) => tag = "Other"
    /\ \A p \in Protocols :
          protocol_stats[p] = Cardinality({i \in Handled : packet_log[i].proto = p})

\* C14 witness: a frame with IP, TCP and UDP layers, one with IP, UDP and ICMP
\* layers and one with an IP header alone were handled.
C14_Witness ==
    /\ Len(packet_log) = 3
    /\ \E i \in Handled : LET f == captured_packets[i] IN f.IP /\ f.TCP /\ f.UDP
    /\ \E i \in Handled : LET f == captured_packets[i] IN f.IP /\ ~f.TCP /\ f.UDP /\ f.ICMP
    /\ \E i \in Handled : LET f == captured_packets[i] IN f.IP /\ ~f.TCP /\ ~f.UDP /\ ~f.ICMP

C16_HttpTag ==
    \A i \in Handled :
        LET f == captured_packets[i]
            text == packet_log[i].summary
            data == decode(f.load)
        IN (f.IP /\ f.TCP) =>
              /\ Contains(text, HttpTag) <=>
                     /\ (f.sport = 80 \/ f.dport = 80)
                     /\ f.Raw /\ ~f.load_raises
                     /\ \E method \in methods : Contains(data, method)
              /\ Contains(text, HttpTag) => Contains(text, HttpTag \o splitlines(data)[1])
              /\ (f = TcpFrame(51000, 80, TRUE, GetRequest, FALSE)) =>
                     /\ packet_log[i].proto = "TCP"
                     /\ text = <<"TCP ", "10.0.0.5", ":", "51000", " -> ", "10.0.0.1", ":",
                                 "80", " [HTTP] ", "G", "E", "T", " ", "/">>
              /\ (f = TcpFrame(51000, 80, TRUE, SplitToken, FALSE)) =>
                     Contains(text, <<" [HTTP] ", "G", "E", "T">>)

\* C16 witness: the request of the scenario, the same request on port 8080 and
\* a payload without token on port 80 were handled.
C16_Witness ==
    /\ Len(packet_log) = 3
    /\ \E i \in Handled : captured_packets[i] = TcpFrame(51000, 80, TRUE, GetRequest, FALSE)
    /\ \E i \in Handled : captured_packets[i] = TcpFrame(51000, 8080, TRUE, GetRequest, FALSE)
    /\ \E i \in Handled : captured_packets[i] = TcpFrame(51000, 80, TRUE, LowerCase, FALSE)

\* C17: the summary of a frame tagged ICMP holds the source and destination
\* IP and the name of the type: 0 Echo Reply, 3 Dest Unreachable, 8 Echo
\* Request, 11 Time Exceeded, blank for any other type; 10.0.0.2 -> 8.8.8.8
\* with type 8 gives "Echo Request".
C17_IcmpTypeName ==
    \A i \in Handled :
        LET f == captured_packets[i]
            text == packet_log[i].summary
        IN (packet_log[i].proto = "ICMP") =>
              /\ Len(text) = 9
              /\ text[2] = f.src /\ text[4] = f.dst
              /\ (f.type = 0) => text[8] = "Echo Reply"
              /\ (f.type = 3) => text[8] = "Dest Unreachable"
              /\ (f.type = 8) => text[8] = "Echo Request"
              /\ (f.type = 11) => text[8] = "Time Exceeded"
              /\ (f.type \notin {0, 3, 8, 11}) => text[8] = ""
              /\ (f = IcmpFrame(8)) =>
                     text = <<"ICMP ", "10.0.0.2", " -> ", "8.8.8.8", " Type: ", "8",
                              " (", "Echo Request", ")">>

\* C17 witness: ICMP frames of type 8, of type 0 and of a type outside the
\* table were handled.
C17_Witness ==
    /\ Len(packet_log) = 3
    /\ \E i \in Handled : captured_packets[i] = IcmpFrame(8)
    /\ \E i \in Handled : captured_packets[i] = IcmpFrame(0)
    /\ \E i \in Handled : captured_packets[i] = IcmpFrame(5)

\* C18: no packet_handler call ends with an exception; a TCP frame on port 80
\* whose payload cannot be decoded gets no [HTTP] tag and a UDP frame whose
\* DNS payload could not be parsed no [DNS Query] tag; each is counted once
\* under its tag, and the session stays running.
C18_SubParseNeverRaises ==
    /\ \A i \in Handled :
          LET f == captured_packets[i]
              text == packet_log[i].summary
          IN /\ packet_log[i].raised = "none"
             /\ packet_log[i].n = i
             /\ (f.IP /\ f.TCP /\ f.load_raises) =>
                    ~Contains(text, HttpTag) /\ packet_log[i].proto = "TCP"
             /\ (f.IP /\ ~f.TCP /\ f.UDP /\ ~f.DNS) =>
                    ~Contains(text, DnsTag) /\ packet_log[i].proto = "UDP"
    /\ Len(packet_log) = packet_count
    /\ Len(captured_packets) = packet_count
    /\ StatsSum(protocol_stats) = packet_count
    /\ (pc = "capturing") => running

\* C18 witness: in a running session a port-80 TCP frame whose payload cannot
\* be decoded and a port-53 UDP frame whose payload is no DNS message were
\* handled, and a frame after them.
C18_Witness ==
    /\ pc = "capturing" /\ running
    /\ Len(packet_log) = 3
    /\ LET f == captured_packets[1]
       IN f.IP /\ f.TCP /\ f.Raw /\ f.load_raises /\ f.dport = 80
    /\ LET f == captured_packets[2]
       IN f.IP /\ f.UDP /\ f.Raw /\ ~f.DNS /\ f.dport = 53

----------------------------------------------------------------------------
(* Discovery: properties *)

\* C4: the result of one scan holds at most one device per IP address, and the
\* device of an IP carries the hardware address of the last reply from that IP.
C4_OneDevicePerIp ==
    /\ \A i, j \in 1..Len(devices) : (devices[i].ip = devices[j].ip) => (i = j)
    /\ \A k \in 1..Len(srp_result) :
          (\A l \in (k + 1)..Len(srp_result) : srp_result[l].psrc # srp_result[k].psrc) =>
              \E i \in 1..Len(devices) :
                  /\ devices[i].ip = srp_result[k].psrc
                  /\ devices[i].mac = srp_result[k].hwsrc

\* A target the spec allows to be probed: an IPv4 address, or a CIDR block with
\* a prefix of 0..32.
ValidTarget(target) == validate_ip_address(target) \/ validate_network_range(target)

\* C5: every target a probe was sent for is a valid IPv4 address or CIDR block.
C5_OnlyValidTargetsProbed ==
    \A i \in 1..Len(probes) : ValidTarget(scan_targets[i])

\* C6: when the user interrupted the run while a later target was scanned, the
\* devices found for the earlier targets are in the scan-results file or were
\* returned.
C6_InterruptKeepsPartialResults ==
    (scan_raised = "KeyboardInterrupt" /\ all_devices # <<>>) =>
        \/ (result_file.written /\ result_file.devices = all_devices)
        \/ (main_file.written /\ main_file.devices = all_devices)
        \/ (~menu_result.none /\ menu_result.devices = all_devices)

\* seqs[1] \o seqs[2] \o ...
RECURSIVE Flatten(_)
Flatten(seqs) == IF seqs = <<>> THEN <<>> ELSE Head(seqs) \o Flatten(Tail(seqs))

\* C20: a run scans its targets one by one in list order, each at most once
\* and all of them before the results are saved; the devices it collected, and
\* saves, are the per-target results concatenated in that order, an IP
\* answered under two targets appearing twice.
C20_TargetsConcatenated ==
    /\ Len(probes) <= Len(scan_targets)
    /\ Len(target_results) = Len(probes)
    /\ \A i \in 1..Len(probes) :
          SubSeq(probes[i], 1, Len(scan_targets[i])) = scan_targets[i]
    /\ all_devices = Flatten(target_results)
    /\ result_file.written =>
          /\ Len(probes) = Len(scan_targets)
          /\ result_file.devices = Flatten(target_results)

\* C20 witness: a run over two targets saved its results, and one IP answered
\* under both targets.
C20_Witness ==
    /\ result_file.written
    /\ Len(scan_targets) = 2 /\ Len(target_results) = 2
    /\ \E i \in 1..Len(target_results[1]), j \in 1..Len(target_results[2]) :
          target_results[1][i].ip = target_results[2][j].ip
    /\ Len(all_devices) = Len(target_results[1]) + Len(target_results[2])

\* C21: the subnet probed for a target depends on the "/" in the target string
\* alone: a target with "/" is probed unchanged, a target without is probed as
\* <target>/32, whether it is an address or a name.
C21_SlashDecidesRange ==
    \A i \in 1..Len(probes) :
        LET target == scan_targets[i]
        IN /\ (\E k \in 1..Len(target) : target[k] = "/") => probes[i] = target
           /\ (\A k \in 1..Len(target) : target[k] # "/") =>
                  probes[i] = target \o <<"/", "32">>

\* C21 witness: two resolved addresses were probed, each as a /32 block.
C21_Witness ==
    /\ Len(probes) = 2
    /\ scan_targets = << <<"192.168.1.7">>, <<"10.0.0.5">> >>

\* C21, the other cases: a block was probed unchanged; a name typed at the
\* manual prompt was probed as a /32 block.
C21_WitnessBlock ==
    Len(probes) = 1 /\ scan_targets = << <<"192.168.1.0", "/", "24">> >>

C21_WitnessName ==
    Len(probes) = 1 /\ scan_targets = << <<"example.com">> >>

\* C23: when the DNS lookup of the domain fails, or the host has no default
\* route or no IPv4 address on its interface, the resolver returns the empty
\* value instead of raising, and the run ends without a target, without a
\* probe sent and without an exception, reported as aborted.
C23_ResolutionFailureIsEmpty ==
    ( \/ (lookup.choice = "3" /\ lookup.raises)
      \/ (lookup.choice = "1" /\ (~lookup.route \/ lookup.addr = "")) ) =>
          /\ scan_targets = <<>>
          /\ probes = <<>>
          /\ scan_raised = "none"
          /\ scan_pc \in {"menu_returned", "menu"}
          /\ (scan_pc = "menu") => scan_last_action = <<"Scan aborted", 0>>

\* C23 witness: a run whose DNS lookup failed has ended.
C23_Witness ==
    lookup.choice = "3" /\ lookup.raises /\ scan_pc = "menu"

\* C23, the gateway lookups: no default route; a route but no IPv4 address.
C23_WitnessNoRoute ==
    lookup.choice = "1" /\ ~lookup.route /\ scan_pc = "menu"

C23_WitnessNoAddress ==
    lookup.choice = "1" /\ lookup.route /\ lookup.addr = "" /\ scan_pc = "menu"

\* C22: scanning a subnet that is invalid (no ARP probe can be built for it)
\* is no error: perform_arp_scan does not raise for the target the loop is at.
C22_InvalidSubnetIsNoError ==
    ( /\ target_idx <= Len(scan_targets)
      /\ ~ScapyAccepts(SubnetOf(scan_targets[target_idx])) ) =>
          scan_raised # "Exception"

\* C26: when a run started from the main menu saved n >= 1 devices, the
\* last-action text scan_network returns is 'Network scan (n found)', and the
\* devices are the ones it received and wrote.
C26_FoundDevicesReported ==
    ( /\ scan_pc = "menu" /\ scan_raised = "none"
      /\ result_file.written /\ Len(result_file.devices) >= 1 ) =>
          /\ scan_last_action = <<"Network scan", Len(result_file.devices)>>
          /\ main_file.written /\ main_file.devices = result_file.devices

----------------------------------------------------------------------------
(* Topology: properties *)

GatewayNodes(G) == {n \in DOMAIN G.nodes : G.nodes[n].node_type = "gateway"}

\* C10: the graph built from a non-empty device list is a star: one gateway
\* node, one edge from every other node to it, and no other edge (none from
\* the gateway to itself).
C10_GraphIsStar ==
    (topo_pc = "done" /\ topo_raised = "none" /\ scan_data # <<>>) =>
        /\ Cardinality(GatewayNodes(graph)) = 1
        /\ \A g \in GatewayNodes(graph) :
              graph.edges = {{n, g} : n \in (DOMAIN graph.nodes) \ {g}}

\* C11: building a topology from an empty device list fails with an error and
\* produces no graph, whichever method of the builder is called.
C11_EmptyInputFails ==
    (topo_pc = "done" /\ scan_data = <<>>) =>
        /\ topo_raised = "ValueError"
        /\ graph = EmptyGraph

\* The addresses of the devices of a list.
DeviceIps(data) == {data[i].ip : i \in 1..Len(data)}

\* C12: for a non-empty device list the detected gateway is <first three
\* octets of the first device's IP>.1 when a device has that address, else the
\* first device's IP; it is always the IP of a device of the list, it is the
\* one node of type gateway, and [192.168.1.1, 192.168.1.50] give 192.168.1.1.
C12_GatewayDetected ==
    (topo_pc = "done" /\ scan_data # <<>>) =>
        LET first == scan_data[1].ip
            candidate == <<first[1], first[2], first[3], 1>>
            gateway_ip == detect_gateway(scan_data)
        IN /\ (candidate \in DeviceIps(scan_data)) => gateway_ip = candidate
           /\ (candidate \notin DeviceIps(scan_data)) => gateway_ip = first
           /\ gateway_ip \in DeviceIps(scan_data)
           /\ GatewayNodes(graph) = {gateway_ip}
           /\ ( /\ Len(scan_data) = 2
                /\ scan_data[1].ip = <<192, 168, 1, 1>>
                /\ scan_data[2].ip = <<192, 168, 1, 50>> ) =>
                    gateway_ip = <<192, 168, 1, 1>>

\* C12 witness: the first device is not at .1 and a later device is.
C12_Witness ==
    /\ topo_pc = "done" /\ Len(scan_data) >= 2
    /\ scan_data[1].ip = <<192, 168, 1, 50>>
    /\ \E i \in 2..Len(scan_data) : scan_data[i].ip = <<192, 168, 1, 1>>

\* C12, the other branch: no device is at .1 of the first device's subnet.
C12_WitnessFallback ==
    /\ topo_pc = "done" /\ Len(scan_data) >= 2
    /\ scan_data[1].ip = <<192, 168, 2, 9>>
    /\ <<192, 168, 2, 1>> \notin DeviceIps(scan_data)
    /\ <<192, 168, 1, 1>> \in DeviceIps(scan_data)

\* The record of the list that decides the node of its address: the last one.
LastRecordOfIp(data, i) == \A j \in (i + 1)..Len(data) : data[j].ip # data[i].ip

IsLocal(device, local) == \E k \in 1..Len(local) : local[k] = device.ip

HasVmKeyword(device) == \E kw \in vm_keywords : Contains(Lower(VendorOf(device)), kw)

HasVendorKeyword(device) == \E v \in known_vendors : Contains(Lower(VendorOf(device)), v)

\* C19: the role of a device is gateway exactly when its IP is the gateway IP;
\* otherwise the first matching rule decides: locally-bound address -> local,
\* virtualization keyword in the vendor (any case) -> vm, hardware-vendor
\* keyword in the vendor -> device, else unknown.
C19_RoleByFirstRule ==
    (topo_pc = "done" /\ scan_data # <<>>) =>
        \A i \in 1..Len(scan_data) :
            LastRecordOfIp(scan_data, i) =>
                LET device == scan_data[i]
                    role == graph.nodes[device.ip].node_type
                    gw == (device.ip = detect_gateway(scan_data))
                    loc == IsLocal(device, local_ips)
                    vm == HasVmKeyword(device)
                    ven == HasVendorKeyword(device)
                IN /\ (role = "gateway") <=> gw
                   /\ (~gw /\ loc) => role = "local"
                   /\ (~gw /\ ~loc /\ vm) => role = "vm"
                   /\ (~gw /\ ~loc /\ ~vm /\ ven) => role = "device"
                   /\ (~gw /\ ~loc /\ ~vm /\ ~ven) => role = "unknown"

\* C19 witness: one list holds a local device whose vendor has a
\* virtualization keyword, and a device whose vendor has a virtualization and
\* a hardware-vendor keyword; neither is the gateway.
C19_Witness ==
    /\ topo_pc = "done" /\ Len(scan_data) = 3
    /\ detect_gateway(scan_data) = <<192, 168, 1, 1>>
    /\ \E i \in 1..3 : /\ IsLocal(scan_data[i], local_ips)
                       /\ HasVmKeyword(scan_data[i])
                       /\ graph.nodes[scan_data[i].ip].node_type = "local"
    /\ \E i \in 1..3 : /\ HasVmKeyword(scan_data[i]) /\ HasVendorKeyword(scan_data[i])
                       /\ graph.nodes[scan_data[i].ip].node_type = "vm"

====
